---- MODULE Spec2Model ----
(***************************************************************************)
(* NutriApp (src/app.py): the simulated report engine                      *)
(* generate_report_simulated and the text helpers it uses.                 *)
(*                                                                         *)
(* Representation of Python values.  A str is a sequence of chunks.  Text  *)
(* that comes from a caller is a sequence of one-character chunks, so that *)
(* strip, lower and substring search work character by character.  A       *)
(* string literal of the source is one chunk holding the literal (a        *)
(* literal of the source has no newline in it unless it is written here as *)
(* the separate chunk "\n").  None is the marker value None below.         *)
(***************************************************************************)
EXTENDS Integers, Sequences, FiniteSets, TLC

VARIABLES pc, req, report,       \* one call of the engine
          calls, heap, seen,     \* concurrent calls of the engine
          files, sess, issued, clock   \* the record store and the sessions

callvars == <<calls, heap, seen>>

storevars == <<files, sess, issued, clock>>

vars == <<pc, req, report, calls, heap, seen, files, sess, issued, clock>>

(***************************************************************************)
(* Bounds of the model.                                                    *)
(***************************************************************************)
\* longest run of whitespace put around (or used as) a caller's text
MaxPad == 1

\* number of callers (session threads) that call the engine concurrently
MaxCallers == 2

\* number of record identifiers drawn in a behaviour of the store
MaxIds == 3

\* last second of the clock in a behaviour of the store
MaxClock == 1

(***************************************************************************)
(* Python values and str methods.                                          *)
(***************************************************************************)
None == <<"NoneType">>

\* the exception an attribute lookup on None raises
AttributeError == <<"AttributeError">>

\* characters str.strip() removes (the ones the model's inputs use)
Whitespace == {" ", "\n", "\t"}

UpperCase ==
    <<"A", "B", "C", "D", "E", "F", "G", "H", "I", "J", "K", "L", "M",
      "N", "O", "P", "Q", "R", "S", "T", "U", "V", "W", "X", "Y", "Z",
      "Ç", "Ã", "Õ", "Á", "É", "Í", "Ó", "Ú", "Â", "Ê", "Ô">>

LowerCase ==
    <<"a", "b", "c", "d", "e", "f", "g", "h", "i", "j", "k", "l", "m",
      "n", "o", "p", "q", "r", "s", "t", "u", "v", "w", "x", "y", "z",
      "ç", "ã", "õ", "á", "é", "í", "ó", "ú", "â", "ê", "ô">>

\* the lower-case letter of each upper-case letter
LowerOf ==
    [u \in {UpperCase[i] : i \in 1..Len(UpperCase)} |->
        LowerCase[CHOOSE i \in 1..Len(UpperCase) : UpperCase[i] = u]]

\* str.lower() on one character
lower_char(ch) == IF ch \in DOMAIN LowerOf THEN LowerOf[ch] ELSE ch

\* str.lower()
lower(s) == [i \in 1..Len(s) |-> lower_char(s[i])]

\* str.strip(); None has no attribute strip
strip(s) ==
    IF s = None THEN AttributeError
    ELSE LET keep == {i \in 1..Len(s) : s[i] \notin Whitespace}
         IN  IF keep = {} THEN <<>>
             ELSE SubSeq(s, CHOOSE i \in keep : \A j \in keep : i <= j,
                            CHOOSE i \in keep : \A j \in keep : j <= i)


\* a slip: the "or" that replaces None by "" is left out
or_empty_missing(x) == x

\* the Python expression (x or ""): None and "" are falsy
or_empty(x) == IF x = None \/ x = <<>> THEN <<>> ELSE x

\* the Python expression (term in t)
contains(t, term) ==
    \E i \in 1..(Len(t) - Len(term) + 1) : SubSeq(t, i, i + Len(term) - 1) = term


\* a slip: the text is searched as written, not in lower case
contains_any_cased(text, terms) ==
    LET t == or_empty(text)
    IN  \E k \in 1..Len(terms) : contains(t, terms[k])

\* _contains_any(text, terms)
contains_any(text, terms) ==
    LET t == lower(or_empty(text))
    IN  \E k \in 1..Len(terms) : contains(t, terms[k])


\* a slip: a default other than None for a key that is absent
\* (extra.get(key, "-"))
get_default(extra, key) == IF key \in DOMAIN extra THEN extra[key] ELSE <<"-">>

\* dict.get(key): None when the key is absent
get(extra, key) == IF key \in DOMAIN extra THEN extra[key] ELSE None

\* str(x) as an f-string applies it
format(x) == IF x = None THEN <<"N", "o", "n", "e">> ELSE x

\* "\n".join(lines)
RECURSIVE join_lines(_)
join_lines(lines) ==
    IF lines = <<>> THEN <<>>
    ELSE IF Len(lines) = 1 THEN lines[1]
    ELSE lines[1] \o <<"\n">> \o join_lines(Tail(lines))

\* "\n".join([f"- {x}" for x in lines])
render(lines) == join_lines([i \in 1..Len(lines) |-> <<"- ">> \o lines[i]])

(***************************************************************************)
(* The module names and the extra fields each module reads.                *)
(***************************************************************************)
Clinica == <<"Nutrição clínica">>
Esportiva == <<"Nutrição esportiva">>
Materno == <<"Materno infantil">>

KnownModules == {Clinica, Esportiva, Materno}

\* the keys each module group reads with extra.get, in the order it reads them
ModuleFields(module) ==
    IF module = Clinica THEN <<"comorbidities", "labs", "meds">>
    ELSE IF module = Esportiva THEN <<"training_routine", "performance_goal", "body_comp">>
    ELSE IF module = Materno THEN <<"child_age", "breastfeeding", "growth_curve", "allergy">>
    ELSE <<>>


\* a slip: the value is used as written, not stripped
field_unstripped(extra, key) ==
    IF or_empty(get(extra, key)) = None THEN AttributeError ELSE or_empty(get(extra, key))

\* (extra.get(key) or "").strip()
field(extra, key) == strip(or_empty(get(extra, key)))

(***************************************************************************)
(* The keyword lists of the common heuristics.                             *)
(***************************************************************************)
FatigueTerms ==
    << <<"c", "a", "n", "s", "a", "ç", "o">>, <<"f", "a", "d", "i", "g", "a">>,
       <<"s", "o", "n", "o", "l">>, <<"i", "n", "s", "ô", "n", "i", "a">> >>

WeightTerms ==
    << <<"e", "m", "a", "g", "r", "e", "c">>,
       <<"p", "e", "r", "d", "e", "r", " ", "p", "e", "s", "o">>,
       <<"r", "e", "d", "u", "ç", "ã", "o", " ", "d", "e", " ", "p", "e", "s", "o">> >>

GastroTerms ==
    << <<"i", "n", "t", "e", "s", "t">>, <<"g", "a", "s", "e", "s">>,
       <<"i", "n", "c", "h", "a">>, <<"a", "z", "i", "a">>,
       <<"r", "e", "f", "l", "u", "x">> >>

(***************************************************************************)
(* The five accumulator lists and the bullets the rules append.            *)
(***************************************************************************)
Sections == {"assessment", "attention_points", "next_steps", "missing_data", "follow_up"}

NoLines == [s \in Sections |-> <<>>]


\* a slip: the line is put at the front of the list (insert(0, line))
append_front(acc, section, line) == [acc EXCEPT ![section] = <<line>> \o @]

\* lst.append(line) on the list of one section
append(acc, section, line) == [acc EXCEPT ![section] = Append(@, line)]

FatigueAssessment == <<"A queixa sugere possível relação com sono, hidratação e regularidade alimentar.">>
FatigueAttention == <<"Investigar padrão de sono, ingestão hídrica e regularidade das refeições.">>
FatigueNextStep == <<"Registrar sono e hidratação por 7 dias e revisar distribuição das refeições ao longo do dia.">>

WeightAssessment == <<"O objetivo indica necessidade de estratégia gradual para favorecer adesão.">>
WeightAttention == <<"Risco de metas agressivas reduzirem adesão e favorecerem compensações alimentares.">>
WeightNextStep == <<"Definir metas graduais e indicadores de adesão (frequência alimentar, proteína/dia e rotina).">>

GastroAssessment == <<"Há indícios de desconforto gastrointestinal que pode demandar investigação dirigida.">>
GastroAttention == <<"Avaliar gatilhos alimentares, horários e composição das refeições.">>
GastroNextStep == <<"Aplicar diário alimentar dirigido por 3 a 7 dias e registrar sintomas por horário.">>

\* the "Heurísticas comuns": three independent rules, each appending to
\* assessment_lines, attention and next_steps
common_heuristics(acc, complaint, goals, notes) ==
    LET a1 == IF contains_any(complaint, FatigueTerms)
              THEN append(append(append(acc, "assessment", FatigueAssessment),
                                 "attention_points", FatigueAttention),
                          "next_steps", FatigueNextStep)
              ELSE acc
        a2 == IF contains_any(goals, WeightTerms)
              THEN append(append(append(a1, "assessment", WeightAssessment),
                                 "attention_points", WeightAttention),
                          "next_steps", WeightNextStep)
              ELSE a1
        a3 == IF contains_any(complaint \o <<" ">> \o notes, GastroTerms)
              THEN append(append(append(a2, "assessment", GastroAssessment),
                                 "attention_points", GastroAttention),
                          "next_steps", GastroNextStep)
              ELSE a2
    IN  a3

\* the opening and closing literal of the attention bullet that echoes a field
AttentionHead ==
    [comorbidities |-> "Comorbidades registradas: ",
     labs |-> "Exames citados: ",
     meds |-> "Medicamentos e suplementos: ",
     training_routine |-> "Rotina de treino: ",
     performance_goal |-> "Meta esportiva: ",
     body_comp |-> "Composição corporal: ",
     child_age |-> "Idade da criança: ",
     breastfeeding |-> "Aleitamento: ",
     growth_curve |-> "Crescimento/curva: ",
     allergy |-> "Alergias/intolerâncias: "]

AttentionTail ==
    [comorbidities |-> ". Ajustar conduta conforme condição clínica.",
     labs |-> ". Verificar alterações relevantes e tendência temporal.",
     meds |-> ". Verificar interações e impactos (apetite, glicemia, sono).",
     training_routine |-> ". Ajustar timing de nutrientes, hidratação e recuperação.",
     performance_goal |-> ". Alinhar estratégia alimentar à periodização.",
     body_comp |-> ". Usar como referência para metas realistas e monitoramento.",
     child_age |-> ". Ajustar orientação conforme fase alimentar.",
     breastfeeding |-> ". Considerar manejo e orientação conforme rotina familiar.",
     growth_curve |-> ". Verificar tendência e sinais de risco nutricional.",
     allergy |-> ". Garantir adequação e segurança alimentar."]

\* the missing-data bullet of a field that was not provided
MissingLine ==
    [comorbidities |-> <<"Comorbidades e diagnósticos relevantes não informados.">>,
     labs |-> <<"Exames laboratoriais recentes não informados, quando aplicável.">>,
     meds |-> <<"Medicamentos e suplementos em uso não informados.">>,
     training_routine |-> <<"Rotina de treino (frequência, duração e intensidade) não informada.">>,
     performance_goal |-> <<"Meta esportiva específica não informada (performance, hipertrofia, resistência, recomposição).">>,
     body_comp |-> <<"Composição corporal não informada, quando aplicável.">>,
     child_age |-> <<"Idade da criança não informada, essencial para orientar conduta.">>,
     breastfeeding |-> <<"Informação sobre aleitamento não informada, quando aplicável.">>,
     growth_curve |-> <<"Peso/estatura e datas não informados.">>,
     allergy |-> <<"Alergias/intolerâncias não informadas, quando aplicável.">>]

\* the next-step bullet three of the fields add when they are provided
FieldNextStep ==
    [labs |-> <<"Padronizar registro de exames com datas e acompanhar tendência longitudinal.">>,
     training_routine |-> <<"Mapear janela pré e pós-treino e registrar recuperação percebida e sono.">>,
     growth_curve |-> <<"Registrar medidas com datas e acompanhar tendência longitudinal na curva.">>]

\* f"<head>{value}<tail>"
attention_line(key, value) == <<AttentionHead[key]>> \o value \o <<AttentionTail[key]>>

\* one "if value: ... else: ..." block of a module group
field_rule(acc, key, value) ==
    IF value # <<>>
    THEN LET a == append(acc, "attention_points", attention_line(key, value))
         IN  IF key \in DOMAIN FieldNextStep
             THEN append(a, "next_steps", FieldNextStep[key])
             ELSE a
    ELSE append(acc, "missing_data", MissingLine[key])

ClinicaAssessment == <<"No contexto clínico, recomenda-se integrar histórico, sintomas e dados laboratoriais para orientar conduta inicial.">>
ClinicaNextStep == <<"Definir plano inicial com metas objetivas e rotina de acompanhamento.">>
ClinicaFollowUp == <<"Reavaliar adesão, sintomas e evolução em 7 a 14 dias.">>
ClinicaFollowUp2 == <<"Atualizar medidas e revisar exames conforme disponibilidade.">>

EsportivaAssessment == <<"No contexto esportivo, é necessário alinhar ingestão, timing e recuperação à rotina de treino e objetivo de performance.">>
EsportivaNextStep == <<"Definir indicadores semanais: treinos realizados, sono, fome, recuperação e desempenho.">>
EsportivaFollowUp == <<"Reavaliar resposta ao plano e performance em 7 dias, com ajustes finos no timing e distribuição.">>
EsportivaFollowUp2 == <<"Atualizar métricas conforme periodicidade e disponibilidade.">>

MaternoAssessment == <<"No contexto materno-infantil, é essencial considerar idade, rotina alimentar, crescimento e tolerâncias, priorizando segurança.">>
MaternoNextStep == <<"Orientar plano inicial considerando rotina familiar, aceitação alimentar e segurança na variedade.">>
MaternoFollowUp == <<"Reavaliar aceitação e evolução em 14 a 30 dias, conforme caso.">>


\* a slip: the group appends the reassessment bullet only
clinica_group_short(acc, extra) ==
    LET a0 == append(acc, "assessment", ClinicaAssessment)
        a1 == field_rule(a0, "comorbidities", field(extra, "comorbidities"))
        a2 == field_rule(a1, "labs", field(extra, "labs"))
        a3 == field_rule(a2, "meds", field(extra, "meds"))
        a4 == append(a3, "next_steps", ClinicaNextStep)
    IN  append(a4, "follow_up", ClinicaFollowUp)

\* if module == "Nutrição clínica": ...
clinica_group(acc, extra) ==
    LET a0 == append(acc, "assessment", ClinicaAssessment)
        a1 == field_rule(a0, "comorbidities", field(extra, "comorbidities"))
        a2 == field_rule(a1, "labs", field(extra, "labs"))
        a3 == field_rule(a2, "meds", field(extra, "meds"))
        a4 == append(a3, "next_steps", ClinicaNextStep)
        a5 == append(a4, "follow_up", ClinicaFollowUp)
    IN  append(a5, "follow_up", ClinicaFollowUp2)

\* elif module == "Nutrição esportiva": ...
esportiva_group(acc, extra) ==
    LET a0 == append(acc, "assessment", EsportivaAssessment)
        a1 == field_rule(a0, "training_routine", field(extra, "training_routine"))
        a2 == field_rule(a1, "performance_goal", field(extra, "performance_goal"))
        a3 == field_rule(a2, "body_comp", field(extra, "body_comp"))
        a4 == append(a3, "next_steps", EsportivaNextStep)
        a5 == append(a4, "follow_up", EsportivaFollowUp)
    IN  append(a5, "follow_up", EsportivaFollowUp2)

\* elif module == "Materno infantil": ...
materno_group(acc, extra) ==
    LET a0 == append(acc, "assessment", MaternoAssessment)
        a1 == field_rule(a0, "child_age", field(extra, "child_age"))
        a2 == field_rule(a1, "breastfeeding", field(extra, "breastfeeding"))
        a3 == field_rule(a2, "growth_curve", field(extra, "growth_curve"))
        a4 == field_rule(a3, "allergy", field(extra, "allergy"))
        a5 == append(a4, "next_steps", MaternoNextStep)
    IN  append(a5, "follow_up", MaternoFollowUp)


\* a slip: the branch of the third module is left out
module_group_two(acc, module, extra) ==
    IF module = Clinica THEN clinica_group(acc, extra)
    ELSE IF module = Esportiva THEN esportiva_group(acc, extra)
    ELSE acc


\* a slip: the chain ends in an else branch, so that a module outside the
\* three is treated as the first one
module_group_else(acc, module, extra) ==
    IF module = Esportiva THEN esportiva_group(acc, extra)
    ELSE IF module = Materno THEN materno_group(acc, extra)
    ELSE clinica_group(acc, extra)

\* the if / elif / elif chain over module; no else branch
module_group(acc, module, extra) ==
    IF module = Clinica THEN clinica_group(acc, extra)
    ELSE IF module = Esportiva THEN esportiva_group(acc, extra)
    ELSE IF module = Materno THEN materno_group(acc, extra)
    ELSE acc

(***************************************************************************)
(* The fallback of each list that stayed empty.                            *)
(***************************************************************************)
Fallback ==
    [assessment |-> <<"Registro insuficiente para avaliação mais direcionada. Recomenda-se completar dados e reavaliar.">>,
     attention_points |-> <<"Não foram identificados pontos críticos com base nos dados informados. Recomenda-se completar o registro.">>,
     next_steps |-> <<"Completar anamnese e estabelecer plano inicial com monitoramento em 7 a 14 dias.">>,
     missing_data |-> <<"Sem pendências críticas identificadas a partir do registro atual.">>,
     follow_up |-> <<"Agendar retorno para reavaliação e ajuste do plano conforme evolução e adesão.">>]


\* a slip: no fallback is substituted
apply_fallbacks_none(acc) == acc

\* if not lst: lst = [fallback], for each of the five lists
apply_fallbacks(acc) ==
    [s \in Sections |-> IF acc[s] = <<>> THEN <<Fallback[s]>> ELSE acc[s]]

(***************************************************************************)
(* The summary and the report.                                             *)
(***************************************************************************)
Placeholder == <<"Não informado">>


\* a slip: the notes are written as they are, without the placeholder
summary_text_bare(module, subtype, complaint, goals, notes) ==
    <<"Módulo: ">> \o format(module) \o <<" (">> \o format(subtype) \o <<")">> \o <<"\n">>
    \o <<"Queixa principal: ">> \o complaint \o <<"\n">>
    \o <<"Objetivos: ">> \o goals \o <<"\n">>
    \o <<"Observações: ">> \o notes

\* the f-string of four lines; complaint, goals and notes are already stripped
summary_text(module, subtype, complaint, goals, notes) ==
    <<"Módulo: ">> \o format(module) \o <<" (">> \o format(subtype) \o <<")">> \o <<"\n">>
    \o <<"Queixa principal: ">> \o complaint \o <<"\n">>
    \o <<"Objetivos: ">> \o goals \o <<"\n">>
    \o <<"Observações: ">> \o (IF notes # <<>> THEN notes ELSE Placeholder)

ReportKeys == {"summary"} \cup Sections

NoReport == [k \in ReportKeys |-> <<>>]

\* does the call raise: one of the .strip() calls it reaches is on None
raises(module, complaint, goals, notes, extra) ==
    \/ AttributeError \in {strip(or_empty(complaint)), strip(or_empty(goals)), strip(or_empty(notes))}
    \/ \E i \in 1..Len(ModuleFields(module)) : field(extra, ModuleFields(module)[i]) = AttributeError


\* a slip: the weight-loss rule looks at the subtype label as well as at the
\* goals
generate_report_subtype(module, subtype, complaint0, goals0, notes0, extra) ==
    LET complaint == strip(or_empty(complaint0))
        goals == strip(or_empty(goals0))
        notes == strip(or_empty(notes0))
        summary == summary_text(module, subtype, complaint, goals, notes)
        lists == apply_fallbacks(
                     module_group(common_heuristics(NoLines, complaint,
                                                    goals \o <<" ">> \o format(subtype), notes),
                                  module, extra))
    IN  [k \in ReportKeys |-> IF k = "summary" THEN summary ELSE render(lists[k])]

\* generate_report_simulated(module, subtype, complaint, goals, notes, extra),
\* for a call that does not raise
generate_report_simulated(module, subtype, complaint0, goals0, notes0, extra) ==
    LET complaint == strip(or_empty(complaint0))
        goals == strip(or_empty(goals0))
        notes == strip(or_empty(notes0))
        summary == summary_text(module, subtype, complaint, goals, notes)
        lists == apply_fallbacks(
                     module_group(common_heuristics(NoLines, complaint, goals, notes),
                                  module, extra))
    IN  [k \in ReportKeys |-> IF k = "summary" THEN summary ELSE render(lists[k])]

(***************************************************************************)
(* The inputs of a call.                                                   *)
(***************************************************************************)
\* a run of n whitespace characters
Pad(n) == [i \in 1..n |-> IF i % 2 = 1 THEN " " ELSE "\n"]

\* a text with whitespace around it
Padded(s) == Pad(MaxPad) \o s \o Pad(MaxPad)

\* the empty string and the whitespace-only strings
Blanks == {Pad(n) : n \in 0..MaxPad}

\* a module outside the three known ones
OtherModule == <<"Nutrição geral">>

Modules == KnownModules \cup {OtherModule}

\* two of the labels of the "Tipo de consulta" select box
Subtypes == {<<"Padrão">>, <<"E", "m", "a", "g", "r", "e", "c", "i", "m", "e", "n", "t", "o">>}

Complaints ==
    {None} \cup Blanks \cup
    {Padded(<<"C", "a", "n", "s", "a", "ç", "o", " ", "x">>),
     <<"d", "o", "r", "\n", "G", "A", "S", "E", "S">>,
     <<"d", "o", "r">>}

GoalsTexts ==
    {None,
     Padded(<<"P", "e", "r", "d", "e", "r", " ", "P", "e", "s", "o">>),
     <<"f", "o", "c", "o">>}

NotesTexts ==
    {None, Pad(MaxPad), <<"A", "z", "i", "a">>, <<"a", "\n", "b">>}

\* what a caller supplies for a field it provides
FieldSample ==
    [comorbidities |-> <<"D", "M", "2">>,
     labs |-> <<"H", "b", "7">>,
     meds |-> <<"A", "A", "S">>,
     training_routine |-> <<"5", "x", "/", "s", "e", "m">>,
     performance_goal |-> <<"1", "0", "k">>,
     body_comp |-> <<"1", "8", "%">>,
     child_age |-> <<"2", " ", "a">>,
     breastfeeding |-> <<"s", "i", "m">>,
     growth_curve |-> <<"p", "5", "0">>,
     allergy |-> <<"o", "v", "o">>]

\* the ways a caller leaves a field out: None, whitespace, no key, ""
NotProvided == <<"none", "blank", "absent", "empty">>

\* the value that leaves a field out in the way np (for a key that is there)
left_out(np) ==
    IF np = "none" THEN None ELSE IF np = "empty" THEN <<>> ELSE Pad(MaxPad)

\* the mapping over the fields of a form where every field is left out in
\* the way np
ExtraBlank(fields, np) ==
    [k \in (IF np = "absent" THEN {} ELSE {fields[i] : i \in 1..Len(fields)}) |->
        left_out(np)]

\* the mapping over the fields of a form that provides the fields of present
\* and leaves the others out, the n-th of them in the n-th way of NotProvided
ExtraMixed(fields, present) ==
    LET way(i) == NotProvided[((Cardinality({j \in 1..i : fields[j] \notin present}) - 1) % 4) + 1]
        index(k) == CHOOSE i \in 1..Len(fields) : fields[i] = k
        keys == {fields[i] : i \in {j \in 1..Len(fields) :
                                        fields[j] \in present \/ way(j) # "absent"}}
    IN  [k \in keys |-> IF k \in present THEN Padded(FieldSample[k])
                        ELSE left_out(way(index(k)))]

\* the mappings a call is made with: over the fields of each form the
\* consultation form fills, every choice of provided fields
Extras ==
    UNION {{ExtraMixed(ModuleFields(m), present) :
                present \in SUBSET {ModuleFields(m)[i] : i \in 1..Len(ModuleFields(m))}}
           \cup {ExtraBlank(ModuleFields(m), NotProvided[n]) : n \in 1..Len(NotProvided)} :
           m \in KnownModules}

(***************************************************************************)
(* Concurrent calls: every session runs its script in a thread of its own, *)
(* so calls of the engine interleave.  A call has a frame (its arguments   *)
(* and its position) and the five lists it creates on entry.               *)
(***************************************************************************)
Callers == 1..MaxCallers

\* no call is under way
NoRequest ==
    [module |-> None, subtype |-> None, complaint |-> None, goals |-> None,
     notes |-> None, extra |-> <<>>]

\* the identifiers str(uuid.uuid4())[:8] gives the callers
ConsultIds == {<<"1f0c9a2e">>, <<"7b3d44a1">>}

\* the values datetime.now().isoformat(timespec="seconds") gives the callers
Timestamps == {<<"2024-05-01T10:00:00">>, <<"2024-05-01T10:00:01">>}

NoFrame == [pc |-> "idle", req |-> NoRequest, cid |-> None, result |-> NoReport]

\* a slip: the five lists are module-level objects, the same for every call
alloc_shared(c) == 1

\* the list objects of the call of c: "assessment_lines = []" and the four
\* assignments after it create new objects in every call
alloc(c) == c

\* no call is under way
CallsIdle ==
    /\ calls = [c \in Callers |-> NoFrame]
    /\ heap = [c \in Callers |-> NoLines]
    /\ seen = {}

(***************************************************************************)
(* The record store: three CSV files, read and written whole, and the      *)
(* sessions that work on them.  A file is the sequence of its rows as      *)
(* written on disk; a DataFrame is the sequence of its rows in memory.     *)
(***************************************************************************)
\* the browser sessions; each runs the script in a thread of its own
Sessions == {"A", "B"}

FileNames == {"patients", "consultations", "reports"}

\* float("nan"), what pd.read_csv gives for an empty field
NaN == <<"nan">>

\* pd.read_csv on one field: an empty field is missing, other text is kept
\* (the texts of the model are not numerals)
read_field(v) == IF v = <<>> THEN NaN ELSE v

\* DataFrame.to_csv on one value: a missing value is written as nothing
write_field(v) == IF v = NaN THEN <<>> ELSE v

\* load_df: the rows of the file
load_df(file) ==
    [i \in 1..Len(file) |-> [k \in DOMAIN file[i] |-> read_field(file[i][k])]]

\* save_df: the whole file is replaced by the rows of the frame
save_df(df) ==
    [i \in 1..Len(df) |-> [k \in DOMAIN df[i] |-> write_field(df[i][k])]]

\* pd.concat([df, pd.DataFrame([row])], ignore_index=True)
concat(df, row) == Append(df, row)

\* str(uuid.uuid4())[:8]: the n-th identifier drawn; no two are equal
uuid4(n) == <<"4f9a1c0" \o ToString(n)>>

\* datetime.now().isoformat(timespec="seconds") at second t
isoformat(t) == <<"2024-05-01T10:00:0" \o ToString(t)>>

\* the rows of df at the positions in S, in the order of df
rows_at(df, S) ==
    LET n == Cardinality(S)
        ix == CHOOSE f \in [1..n -> S] : \A a \in 1..n : \A b \in 1..n : a < b => f[a] < f[b]
    IN  [a \in 1..n |-> df[ix[a]]]

\* df.sort_values("created_at", ascending=True): the default sort is not a
\* stable one, so rows of the same second come out in any order (the text
\* of a timestamp orders as its second does)
sort_values(df) ==
    LET n == Len(df)
        second(row) == CHOOSE t \in 0..9 : isoformat(t) = row["created_at"]
    IN  {[a \in 1..n |-> df[p[a]]] :
            p \in {q \in Permutations(1..n) :
                      \A a \in 1..n : \A b \in 1..n :
                          a < b => second(df[q[a]]) <= second(df[q[b]])}}

\* df.drop_duplicates(subset=..., keep="first")
drop_duplicates(df, subset) ==
    rows_at(df, {i \in 1..Len(df) :
                    \A j \in 1..(i - 1) : \E k \in subset : df[j][k] # df[i][k]})

\* the columns that make two rows of a file duplicates of each other
DuplicateSubset ==
    [patients |-> {"name", "age", "sex"},
     consultations |-> {"patient_id", "module", "subtype", "complaint", "goals",
                        "notes", "extra_json"},
     reports |-> {"patient_id", "module", "subtype", "summary", "assessment",
                  "attention_points", "next_steps", "missing_data", "follow_up"}]

\* the order in which deduplicate_storage goes through the files
DedupOrder == <<"patients", "consultations", "reports">>

\* str(extra): the repr of the dict (the texts of the model have no quote)
str_dict(extra, keys) ==
    LET item(i) == <<"'" \o keys[i] \o "': '">> \o extra[keys[i]] \o <<"'">>
        items[i \in 0..Len(keys)] ==
            IF i = 0 THEN <<>>
            ELSE items[i - 1] \o (IF i = 1 THEN <<>> ELSE <<", ">>) \o item(i)
    IN  <<"{">> \o items[Len(keys)] \o <<"}">>

\* the bytes of the PDF of a consultation
pdf_bytes(cid) == <<"%PDF">> \o cid

\* the files as ensure_storage creates them: the header line only
EmptyFiles == [f \in FileNames |-> <<>>]

\* no script run is under way in the session
NoRun == <<>>

\* the messages of st.error
NameRequired == <<"Informe o nome do paciente.">>
SaveError == <<"Preencha, no mínimo, queixa principal e objetivos.">>
AnalyseError == <<"Preencha, no mínimo, queixa principal e objetivos antes de analisar.">>

\* st.session_state as main() initialises it, and no error shown
NoSession ==
    [module |-> None, patient_id |-> None, last_consult_id |-> None,
     last_pdf_bytes |-> None, error |-> None, pc |-> "idle", run |-> NoRun]

\* the store before any session has done anything
StoreIdle ==
    /\ files = EmptyFiles
    /\ sess = [s \in Sessions |-> NoSession]
    /\ issued = 0
    /\ clock = 0

(***************************************************************************)
(* The state machine: a caller invokes the engine and takes its result.    *)
(***************************************************************************)
Init ==
    /\ pc = "idle"
    /\ req = NoRequest
    /\ report = NoReport
    /\ CallsIdle
    /\ StoreIdle

\* one call of generate_report_simulated: it returns the report or raises
Generate ==
    /\ pc = "idle"
    /\ \E module \in Modules, subtype \in Subtypes, complaint \in Complaints,
          goals \in GoalsTexts, notes \in NotesTexts, extra \in Extras :
          /\ req' = [module |-> module, subtype |-> subtype, complaint |-> complaint,
                     goals |-> goals, notes |-> notes, extra |-> extra]
          /\ IF raises(module, complaint, goals, notes, extra)
             THEN pc' = "raised" /\ report' = NoReport
             ELSE /\ pc' = "returned"
                  /\ report' = generate_report_simulated(module, subtype, complaint,
                                                         goals, notes, extra)
    /\ UNCHANGED callvars
    /\ UNCHANGED storevars

\* the caller is done with the result
Return ==
    /\ pc # "idle"
    /\ pc' = "idle"
    /\ req' = NoRequest
    /\ report' = NoReport
    /\ UNCHANGED callvars
    /\ UNCHANGED storevars

Next == Generate \/ Return

Spec == Init /\ [][Next]_vars

(***************************************************************************)
(* The calls of several callers, block by block.                           *)
(***************************************************************************)
\* the requests the callers make
CallRequests ==
    {[module |-> Clinica, subtype |-> <<"Padrão">>,
      complaint |-> <<"F", "a", "d", "i", "g", "a">>, goals |-> <<"f", "o", "c", "o">>,
      notes |-> <<>>, extra |-> [labs |-> <<"H", "b", "7">>]],
     [module |-> Materno, subtype |-> <<"Materno infantil">>,
      complaint |-> <<"d", "o", "r">>, goals |-> <<"e", "m", "a", "g", "r", "e", "c", "e", "r">>,
      notes |-> <<"a", "z", "i", "a">>, extra |-> <<>>],
     [module |-> OtherModule, subtype |-> <<"Padrão">>,
      complaint |-> <<>>, goals |-> <<>>, notes |-> None, extra |-> <<>>]}

\* the caller draws the consultation id, then calls; the arguments are
\* stripped and the five empty lists are created
Enter(c) ==
    /\ calls[c].pc = "idle"
    /\ \E r \in CallRequests, cid \in ConsultIds :
          IF raises(r.module, r.complaint, r.goals, r.notes, r.extra)
          THEN /\ calls' = [calls EXCEPT ![c] = [NoFrame EXCEPT !.pc = "raised", !.req = r, !.cid = cid]]
               /\ UNCHANGED heap
          ELSE /\ calls' = [calls EXCEPT ![c] = [NoFrame EXCEPT !.pc = "entered", !.req = r, !.cid = cid]]
               /\ heap' = [heap EXCEPT ![alloc(c)] = NoLines]
    /\ UNCHANGED <<pc, req, report, seen>>
    /\ UNCHANGED storevars

\* the block of the common heuristics
Heuristics(c) ==
    /\ calls[c].pc = "entered"
    /\ LET r == calls[c].req
       IN  heap' = [heap EXCEPT ![alloc(c)] =
                       common_heuristics(@, strip(or_empty(r.complaint)),
                                         strip(or_empty(r.goals)), strip(or_empty(r.notes)))]
    /\ calls' = [calls EXCEPT ![c].pc = "common"]
    /\ UNCHANGED <<pc, req, report, seen>>
    /\ UNCHANGED storevars

\* the block of the module
Group(c) ==
    /\ calls[c].pc = "common"
    /\ heap' = [heap EXCEPT ![alloc(c)] = module_group(@, calls[c].req.module, calls[c].req.extra)]
    /\ calls' = [calls EXCEPT ![c].pc = "grouped"]
    /\ UNCHANGED <<pc, req, report, seen>>
    /\ UNCHANGED storevars

\* the fallbacks and the return of the dict
Finish(c) ==
    /\ calls[c].pc = "grouped"
    /\ LET r == calls[c].req
           lists == apply_fallbacks(heap[alloc(c)])
           result == [k \in ReportKeys |->
                         IF k = "summary"
                         THEN summary_text(r.module, r.subtype, strip(or_empty(r.complaint)),
                                           strip(or_empty(r.goals)), strip(or_empty(r.notes)))
                         ELSE render(lists[k])]
       IN  /\ calls' = [calls EXCEPT ![c].pc = "done", ![c].result = result]
           /\ seen' = seen \cup {<<r, result>>}
    /\ UNCHANGED <<pc, req, report, heap>>
    /\ UNCHANGED storevars

\* the caller has used the result; the lists of the call are garbage
Take(c) ==
    /\ calls[c].pc \in {"done", "raised"}
    /\ calls' = [calls EXCEPT ![c] = NoFrame]
    /\ heap' = [heap EXCEPT ![alloc(c)] = NoLines]
    /\ UNCHANGED <<pc, req, report, seen>>
    /\ UNCHANGED storevars

CallNext ==
    \E c \in Callers : Enter(c) \/ Heuristics(c) \/ Group(c) \/ Finish(c) \/ Take(c)

CallSpec == Init /\ [][CallNext]_vars

(***************************************************************************)
(* The sessions at work on the record store.  A press of a button runs the *)
(* script from the top; the run is cut where it reads or writes a file, so *)
(* that the runs of two sessions interleave there.                         *)
(***************************************************************************)
enginevars == <<pc, req, report, calls, heap, seen>>

\* the module buttons of the sidebar that the sessions press
ModuleButtons == {Clinica, Materno}

\* the subtype the form of a module sends: the first option of the list
\* for Clínica and Esportiva, the module's own name otherwise
default_subtype(module) ==
    IF module \in {Clinica, Esportiva} THEN <<"Padrão">> ELSE <<"Materno infantil">>

\* the names typed into the patient form
Names == {<<"A", "n", "a">>, Pad(MaxPad)}

\* number_input("Idade", value=30) and selectbox("Sexo") left as they are
DefaultAge == <<"30">>
DefaultSex == <<>>

\* the consult forms of a module that the sessions send
Forms(module) ==
    {[complaint |-> complaint, goals |-> goals, notes |-> <<>>,
      extra |-> [k \in {ModuleFields(module)[i] : i \in 1..Len(ModuleFields(module))} |-> <<>>]] :
        complaint \in {<<"d", "o", "r">>, Pad(MaxPad)},
        goals \in {<<"f", "o", "c", "o">>, <<>>}}

\* a slip: only the complaint is required
not_filled_complaint(form) == strip(form.complaint) = <<>>

\* "not complaint.strip() or not goals.strip()"
not_filled(form) == strip(form.complaint) = <<>> \/ strip(form.goals) = <<>>

\* the seconds datetime.now() can show: the one of the last reading or the next
Now == {t \in {clock, clock + 1} : t <= MaxClock}

\* the script run of the session ends
Idle(s, state) == [state EXCEPT !.pc = "idle", !.run = NoRun]

\* a module button: st.session_state.module = ...
SelectModule(s, module) ==
    /\ sess[s].pc = "idle"
    /\ sess' = [sess EXCEPT ![s].module = module, ![s].error = None]
    /\ UNCHANGED <<files, issued, clock>>
    /\ UNCHANGED enginevars

\* "Cadastrar paciente": the file is loaded, the name checked, the row appended
\* in memory
SubmitPatient(s, name) ==
    /\ sess[s].pc = "idle"
    /\ LET patients == load_df(files["patients"])
       IN  IF strip(name) = <<>>
           THEN /\ sess' = [sess EXCEPT ![s].error = NameRequired]
                /\ UNCHANGED <<issued, clock>>
           ELSE /\ issued < MaxIds
                /\ issued' = issued + 1
                /\ \E t \in Now :
                      /\ clock' = t
                      /\ LET pid == uuid4(issued + 1)
                             new_row == [patient_id |-> pid, name |-> strip(name),
                                         age |-> DefaultAge, sex |-> DefaultSex,
                                         created_at |-> isoformat(t)]
                         IN  sess' = [sess EXCEPT ![s].pc = "patient_save",
                                                  ![s].error = None,
                                                  ![s].run = [df |-> concat(patients, new_row),
                                                              id |-> pid]]
    /\ UNCHANGED files
    /\ UNCHANGED enginevars

\* save_df(patients, PATIENTS_FILE); st.session_state.patient_id = pid
PatientSave(s) ==
    /\ sess[s].pc = "patient_save"
    /\ files' = [files EXCEPT !["patients"] = save_df(sess[s].run.df)]
    /\ sess' = [sess EXCEPT ![s] = Idle(s, [@ EXCEPT !.patient_id = sess[s].run.id])]
    /\ UNCHANGED <<issued, clock>>
    /\ UNCHANGED enginevars

\* a choice in "Selecionar paciente existente"
SelectPatient(s) ==
    /\ sess[s].pc = "idle"
    /\ LET patients == load_df(files["patients"])
       IN  \E i \in 1..Len(patients) :
              sess' = [sess EXCEPT ![s].patient_id = patients[i]["patient_id"],
                                   ![s].error = None]
    /\ UNCHANGED <<files, issued, clock>>
    /\ UNCHANGED enginevars

\* the row of a consultation
consult_row(s, cid, form, now) ==
    [consult_id |-> cid, patient_id |-> sess[s].patient_id, module |-> sess[s].module,
     subtype |-> default_subtype(sess[s].module), complaint |-> strip(form.complaint),
     goals |-> strip(form.goals), notes |-> strip(form.notes),
     extra_json |-> str_dict(form.extra, ModuleFields(sess[s].module)),
     created_at |-> now]

\* "Salvar consulta": the form is there only with a module and a patient;
\* the files are loaded, the form checked, the row appended in memory
PressSave(s, form) ==
    /\ sess[s].pc = "idle"
    /\ sess[s].module # None
    /\ sess[s].patient_id # None
    /\ form \in Forms(sess[s].module)
    /\ LET consults == load_df(files["consultations"])
       IN  IF not_filled(form)
           THEN /\ sess' = [sess EXCEPT ![s].error = SaveError]
                /\ UNCHANGED <<issued, clock>>
           ELSE /\ issued < MaxIds
                /\ issued' = issued + 1
                /\ \E t \in Now :
                      /\ clock' = t
                      /\ LET cid == uuid4(issued + 1)
                             row == consult_row(s, cid, form, isoformat(t))
                         IN  sess' = [sess EXCEPT ![s].pc = "consult_save",
                                                  ![s].error = None,
                                                  ![s].run = [df |-> concat(consults, row),
                                                              id |-> cid]]
    /\ UNCHANGED files
    /\ UNCHANGED enginevars

\* save_df(consults, CONSULTS_FILE); st.session_state.last_consult_id = cid
ConsultSave(s) ==
    /\ sess[s].pc = "consult_save"
    /\ files' = [files EXCEPT !["consultations"] = save_df(sess[s].run.df)]
    /\ sess' = [sess EXCEPT ![s] = Idle(s, [@ EXCEPT !.last_consult_id = sess[s].run.id])]
    /\ UNCHANGED <<issued, clock>>
    /\ UNCHANGED enginevars

\* "Analisar consulta": both files are loaded, the form checked, the row of
\* the consultation appended in memory
PressAnalyse(s, form) ==
    /\ sess[s].pc = "idle"
    /\ sess[s].module # None
    /\ sess[s].patient_id # None
    /\ form \in Forms(sess[s].module)
    /\ LET consults == load_df(files["consultations"])
           reports == load_df(files["reports"])
       IN  IF not_filled(form)
           THEN /\ sess' = [sess EXCEPT ![s].error = AnalyseError]
                /\ UNCHANGED <<issued, clock>>
           ELSE /\ issued + 2 <= MaxIds
                /\ issued' = issued + 2
                /\ \E t \in Now :
                      /\ clock' = t
                      /\ LET cid == uuid4(issued + 1)
                             row == consult_row(s, cid, form, isoformat(t))
                         IN  sess' = [sess EXCEPT ![s].pc = "analyse_save",
                                                  ![s].error = None,
                                                  ![s].run = [df |-> concat(consults, row),
                                                              reports |-> reports,
                                                              id |-> cid,
                                                              rid |-> uuid4(issued + 2),
                                                              now |-> isoformat(t),
                                                              form |-> form]]
    /\ UNCHANGED files
    /\ UNCHANGED enginevars

\* the consultation is saved with the analysis
AnalyseSave(s) ==
    /\ sess[s].pc = "analyse_save"
    /\ files' = [files EXCEPT !["consultations"] = save_df(sess[s].run.df)]
    /\ sess' = [sess EXCEPT ![s].pc = "engine", ![s].last_consult_id = sess[s].run.id]
    /\ UNCHANGED <<issued, clock>>
    /\ UNCHANGED enginevars

\* report = generate_report_simulated(...); its row is appended in memory to
\* the reports loaded at the start of the run
Engine(s) ==
    /\ sess[s].pc = "engine"
    /\ LET run == sess[s].run
           form == run.form
           result == generate_report_simulated(sess[s].module, default_subtype(sess[s].module),
                                               form.complaint, form.goals, form.notes, form.extra)
           report_row == [report_id |-> run.rid, consult_id |-> run.id,
                          patient_id |-> sess[s].patient_id, module |-> sess[s].module,
                          subtype |-> default_subtype(sess[s].module),
                          summary |-> result.summary, assessment |-> result.assessment,
                          attention_points |-> result.attention_points,
                          next_steps |-> result.next_steps,
                          missing_data |-> result.missing_data,
                          follow_up |-> result.follow_up, created_at |-> run.now]
       IN  sess' = [sess EXCEPT ![s].pc = "report_save",
                                ![s].run = [df |-> concat(run.reports, report_row),
                                            id |-> run.id]]
    /\ UNCHANGED <<files, issued, clock>>
    /\ UNCHANGED enginevars

\* save_df(reports, REPORTS_FILE); the PDF is kept in the session unless
\* its generation failed
ReportSave(s) ==
    /\ sess[s].pc = "report_save"
    /\ files' = [files EXCEPT !["reports"] = save_df(sess[s].run.df)]
    /\ \E made \in BOOLEAN :
          sess' = [sess EXCEPT ![s] =
                      Idle(s, [@ EXCEPT !.last_pdf_bytes =
                                  IF made THEN pdf_bytes(sess[s].run.id) ELSE @])]
    /\ UNCHANGED <<issued, clock>>
    /\ UNCHANGED enginevars

\* "Remover duplicatas": deduplicate_storage starts with the patients
PressDeduplicate(s) ==
    /\ sess[s].pc = "idle"
    /\ sess' = [sess EXCEPT ![s].pc = "dedup_load", ![s].error = None,
                            ![s].run = [file |-> 1]]
    /\ UNCHANGED <<files, issued, clock>>
    /\ UNCHANGED enginevars

\* after a file of deduplicate_storage: the next file, or the rest of the run
dedup_next(s, file) ==
    IF file < Len(DedupOrder)
    THEN [sess[s] EXCEPT !.pc = "dedup_load", !.run = [file |-> file + 1]]
    ELSE Idle(s, sess[s])

\* a file is loaded; if it has rows they are sorted and the duplicates dropped
DedupLoad(s) ==
    /\ sess[s].pc = "dedup_load"
    /\ LET file == sess[s].run.file
           df == load_df(files[DedupOrder[file]])
       IN  IF Len(df) > 0
           THEN \E sorted \in sort_values(df) :
                    sess' = [sess EXCEPT ![s].pc = "dedup_save",
                                         ![s].run = [file |-> file,
                                                     df |-> drop_duplicates(sorted,
                                                                DuplicateSubset[DedupOrder[file]])]]
           ELSE sess' = [sess EXCEPT ![s] = dedup_next(s, file)]
    /\ UNCHANGED <<files, issued, clock>>
    /\ UNCHANGED enginevars

\* the file is written back without the duplicates
DedupSave(s) ==
    /\ sess[s].pc = "dedup_save"
    /\ files' = [files EXCEPT ![DedupOrder[sess[s].run.file]] = save_df(sess[s].run.df)]
    /\ sess' = [sess EXCEPT ![s] = dedup_next(s, sess[s].run.file)]
    /\ UNCHANGED <<issued, clock>>
    /\ UNCHANGED enginevars

\* registering, selecting, saving and analysing
RecordNext(s) ==
    \/ \E module \in ModuleButtons : SelectModule(s, module)
    \/ \E name \in Names : SubmitPatient(s, name)
    \/ PatientSave(s)
    \/ SelectPatient(s)
    \/ \E form \in Forms(sess[s].module) : PressSave(s, form)
    \/ ConsultSave(s)
    \/ \E form \in Forms(sess[s].module) : PressAnalyse(s, form)
    \/ AnalyseSave(s)
    \/ Engine(s)
    \/ ReportSave(s)

\* the maintenance button
DedupNext(s) == PressDeduplicate(s) \/ DedupLoad(s) \/ DedupSave(s)

StoreNext == \E s \in Sessions : RecordNext(s)

\* two sessions register, save and analyse at the same time
StoreSpec == Init /\ [][StoreNext]_vars

OneNext == RecordNext("A") \/ DedupNext("A")

\* one session does one thing after the other, maintenance included
OneSpec == Init /\ [][OneNext]_vars

(***************************************************************************)
(* Reading a report back: its lines and its bullets.                       *)
(***************************************************************************)
\* the lines of a text: the text split at its newline characters
RECURSIVE SplitLines(_)
SplitLines(text) ==
    IF \A i \in 1..Len(text) : text[i] # "\n" THEN <<text>>
    ELSE LET n == CHOOSE i \in 1..Len(text) :
                      text[i] = "\n" /\ \A j \in 1..(i - 1) : text[j] # "\n"
         IN  <<SubSeq(text, 1, n - 1)>> \o SplitLines(SubSeq(text, n + 1, Len(text)))

\* the section text has the bullet line as one of its lines
HasBullet(text, line) ==
    \E i \in 1..Len(SplitLines(text)) : SplitLines(text)[i] = <<"- ">> \o line

\* the section text is the fallback bullet of the section and nothing else
IsFallback(section) == report[section] = <<"- ">> \o Fallback[section]

Returned == pc = "returned"

\* the unconditional bullets of each known module
ModuleAssessment(module) ==
    IF module = Clinica THEN ClinicaAssessment
    ELSE IF module = Esportiva THEN EsportivaAssessment ELSE MaternoAssessment

ModuleNextStep(module) ==
    IF module = Clinica THEN ClinicaNextStep
    ELSE IF module = Esportiva THEN EsportivaNextStep ELSE MaternoNextStep

ModuleFollowUp(module) ==
    IF module = Clinica THEN ClinicaFollowUp
    ELSE IF module = Esportiva THEN EsportivaFollowUp ELSE MaternoFollowUp

\* the request leaves complaint, goals and notes out (None, "" or whitespace)
\* and provides no extra field
AllBlank ==
    /\ \A f \in {"complaint", "goals", "notes"} :
           req[f] = None \/ \A i \in 1..Len(req[f]) : req[f][i] \in Whitespace
    /\ \A k \in DOMAIN req.extra :
           req.extra[k] = None \/ \A i \in 1..Len(req.extra[k]) : req.extra[k][i] \in Whitespace

(***************************************************************************)
(* C1.  Whatever the module, subtype, complaint, goals, notes and extra    *)
(* mapping of a call are, each of the six sections of the report it        *)
(* returns (summary, assessment, attention_points, next_steps,             *)
(* missing_data, follow_up) is a non-empty string.                         *)
(***************************************************************************)
C1_NonEmptySections ==
    Returned => \A k \in ReportKeys : Len(report[k]) > 0

\* a call with an unknown module and nothing provided: every list is empty
\* when the fallbacks are applied
C1_Witness ==
    /\ Returned
    /\ req.module = OtherModule
    /\ AllBlank
    /\ req.extra = <<>>
    /\ \A s \in Sections : IsFallback(s)

(***************************************************************************)
(* C2.  A call never raises: for every module and every combination of     *)
(* complaint, goals and notes that are strings or None, and every extra    *)
(* mapping (the empty one and ones with None values included), the call    *)
(* returns a report.                                                       *)
(***************************************************************************)
C2_NeverRaises ==
    pc # "raised"

\* a call of a known module with complaint, goals and notes all None and a
\* None value under a key the module reads has returned
C2_Witness ==
    /\ Returned
    /\ req.module \in KnownModules
    /\ req.complaint = None /\ req.goals = None /\ req.notes = None
    /\ \E i \in 1..Len(ModuleFields(req.module)) :
           LET k == ModuleFields(req.module)[i]
           IN  k \in DOMAIN req.extra /\ req.extra[k] = None

(***************************************************************************)
(* C3.  For each of the three known modules, whatever the other inputs     *)
(* are, assessment, next_steps and follow_up each contain the              *)
(* unconditional bullet of the module group and none of them is or         *)
(* contains the canned fallback bullet; so the next_steps and follow_up    *)
(* fallbacks appear only for a module outside the three.                   *)
(***************************************************************************)
C3_UnconditionalModuleBullets ==
    Returned =>
        /\ req.module \in KnownModules =>
               /\ HasBullet(report.assessment, ModuleAssessment(req.module))
               /\ HasBullet(report.next_steps, ModuleNextStep(req.module))
               /\ HasBullet(report.follow_up, ModuleFollowUp(req.module))
               /\ \A s \in {"assessment", "next_steps", "follow_up"} :
                      ~IsFallback(s) /\ ~HasBullet(report[s], Fallback[s])
        /\ (IsFallback("next_steps") \/ IsFallback("follow_up")) =>
               req.module \notin KnownModules

\* a call of the third module with everything blank
C3_Witness ==
    /\ Returned
    /\ req.module = Materno
    /\ AllBlank
    /\ report.next_steps = <<"- ">> \o MaternoNextStep

(***************************************************************************)
(* What a request asks for, read off the request itself.                   *)
(***************************************************************************)
\* the text has one of the terms in it, in any letter case (the terms are
\* in lower case)
Mentions(text, terms) ==
    /\ text # None
    /\ \E k \in 1..Len(terms) : \E i \in 1..(Len(text) - Len(terms[k]) + 1) :
           \A j \in 1..Len(terms[k]) :
               LET ch == text[i + j - 1]
               IN  ch = terms[k][j] \/ (ch \in DOMAIN LowerOf /\ LowerOf[ch] = terms[k][j])

FatigueFired == Mentions(req.complaint, FatigueTerms)
WeightFired == Mentions(req.goals, WeightTerms)
GastroFired == Mentions(req.complaint, GastroTerms) \/ Mentions(req.notes, GastroTerms)

AnyRuleFired == FatigueFired \/ WeightFired \/ GastroFired

\* the request provides the extra field: the key is there with a value that
\* is not None and has a character that is not whitespace
Provided(key) ==
    /\ key \in DOMAIN req.extra
    /\ req.extra[key] # None
    /\ \E i \in 1..Len(req.extra[key]) : req.extra[key][i] \notin Whitespace

\* the fields the module of the request reads, as a set
FieldSet(module) == {ModuleFields(module)[i] : i \in 1..Len(ModuleFields(module))}

AllFields == UNION {FieldSet(m) : m \in KnownModules}

\* the literals only a module group writes
ModuleLiterals ==
    {ClinicaAssessment[1], ClinicaNextStep[1], ClinicaFollowUp[1], ClinicaFollowUp2[1],
     EsportivaAssessment[1], EsportivaNextStep[1], EsportivaFollowUp[1], EsportivaFollowUp2[1],
     MaternoAssessment[1], MaternoNextStep[1], MaternoFollowUp[1]}
    \cup {AttentionHead[k] : k \in AllFields} \cup {AttentionTail[k] : k \in AllFields}
    \cup {MissingLine[k][1] : k \in AllFields}
    \cup {FieldNextStep[k][1] : k \in DOMAIN FieldNextStep}

\* how many chunks of the text are literals of the set
CountLiterals(text, literals) == Cardinality({i \in 1..Len(text) : text[i] \in literals})

(***************************************************************************)
(* C4.  For a module outside the three known ones, whatever the other      *)
(* inputs are: no module-specific bullet is in any section; follow_up is   *)
(* its canned fallback; assessment, attention_points, next_steps and       *)
(* missing_data are their canned fallbacks if no cross-cutting rule fired; *)
(* and next_steps is not its fallback when a cross-cutting rule fired      *)
(* (the rule's next-step bullet is there instead).                         *)
(***************************************************************************)
C4_UnknownModule ==
    (Returned /\ req.module \notin KnownModules) =>
        /\ \A s \in Sections : CountLiterals(report[s], ModuleLiterals) = 0
        /\ IsFallback("follow_up")
        /\ ~AnyRuleFired =>
               \A s \in {"assessment", "attention_points", "next_steps", "missing_data"} :
                   IsFallback(s)
        /\ AnyRuleFired => ~IsFallback("next_steps")

\* the claim as stated: next_steps is the fallback for every call of an
\* unknown module
C4_AsStated ==
    (Returned /\ req.module \notin KnownModules) =>
        /\ \A s \in Sections : CountLiterals(report[s], ModuleLiterals) = 0
        /\ IsFallback("next_steps")
        /\ IsFallback("follow_up")
        /\ ~AnyRuleFired =>
               \A s \in {"assessment", "attention_points", "missing_data"} : IsFallback(s)

\* an unknown module with extra fields of a known module and a fired rule
C4_Witness ==
    /\ Returned
    /\ req.module = OtherModule
    /\ \E k \in FieldSet(Clinica) : Provided(k)
    /\ FatigueFired
    /\ report.next_steps = <<"- ">> \o FatigueNextStep
    /\ IsFallback("follow_up")

(***************************************************************************)
(* C5.  For a known module each field the module reads contributes exactly *)
(* one attention or missing-data bullet: a provided field an attention     *)
(* bullet that echoes its content with leading and trailing whitespace     *)
(* removed, a field left out (no key, None, "" or whitespace) the          *)
(* missing-data bullet that names it.  The echoing attention bullets and   *)
(* the missing-data bullets together number the fields of the module (3,   *)
(* 3 and 4); with every field left out and no rule fired, missing_data is  *)
(* one bullet per field and attention_points the canned fallback.          *)
(***************************************************************************)
\* the per-field part, with Echoes(line, key) what the attention bullet of a
\* provided field has to do with the field's content
FieldBullets(Echoes(_, _)) ==
    LET fields == ModuleFields(req.module)
    IN  /\ \A i \in 1..Len(fields) :
               LET k == fields[i]
               IN  IF Provided(k)
                   THEN /\ \E n \in 1..Len(SplitLines(report.attention_points)) :
                               LET line == SplitLines(report.attention_points)[n]
                               IN  /\ Len(line) >= 3
                                   /\ line[1] = "- " /\ line[2] = AttentionHead[k]
                                   /\ line[Len(line)] = AttentionTail[k]
                                   /\ Echoes(line, k)
                        /\ CountLiterals(report.attention_points, {AttentionHead[k]}) = 1
                        /\ CountLiterals(report.missing_data, {MissingLine[k][1]}) = 0
                   ELSE /\ HasBullet(report.missing_data, MissingLine[k])
                        /\ CountLiterals(report.missing_data, {MissingLine[k][1]}) = 1
                        /\ CountLiterals(report.attention_points, {AttentionHead[k]}) = 0
        /\ CountLiterals(report.attention_points, {AttentionHead[k] : k \in AllFields})
             + CountLiterals(report.missing_data, {MissingLine[k][1] : k \in AllFields})
             = Len(fields)
        /\ Len(fields) = IF req.module = Materno THEN 4 ELSE 3
        /\ ((\A i \in 1..Len(fields) : ~Provided(fields[i])) /\ ~AnyRuleFired) =>
               /\ SplitLines(report.missing_data)
                    = [i \in 1..Len(fields) |-> <<"- ">> \o MissingLine[fields[i]]]
               /\ IsFallback("attention_points")

C5_FieldBulletsTrimmed ==
    (Returned /\ req.module \in KnownModules) =>
        FieldBullets(LAMBDA line, k : SubSeq(line, 3, Len(line) - 1) = strip(req.extra[k]))

\* the claim as stated: the bullet has the content in it as it was supplied
C5_AsStated ==
    (Returned /\ req.module \in KnownModules) =>
        FieldBullets(LAMBDA line, k : contains(line, req.extra[k]))

\* a call of the third module that provides some fields (with whitespace
\* around the content) and leaves others out
C5_Witness ==
    /\ Returned
    /\ req.module = Materno
    /\ Provided("child_age") /\ req.extra["child_age"] # strip(req.extra["child_age"])
    /\ Provided("growth_curve")
    /\ ~Provided("breastfeeding") /\ ~Provided("allergy")
    /\ Len(SplitLines(report.missing_data)) = 2

(***************************************************************************)
(* C6.  Whenever the complaint has a fatigue, drowsiness or insomnia term  *)
(* in it (such as "cansaço"), in any letter case and with any text around  *)
(* it, the sleep/hydration assessment line, the sleep-investigation        *)
(* attention bullet and the 7-day logging next-step bullet are all in the  *)
(* report, for every module and every content of the other fields.         *)
(***************************************************************************)
C6_FatigueKeyword ==
    (Returned /\ FatigueFired) =>
        /\ HasBullet(report.assessment, FatigueAssessment)
        /\ HasBullet(report.attention_points, FatigueAttention)
        /\ HasBullet(report.next_steps, FatigueNextStep)

\* a complaint with a capitalised "Cansaço", whitespace and other text
\* around it, in a call where the other two rules fired as well
C6_Witness ==
    /\ Returned
    /\ req.complaint = Padded(<<"C", "a", "n", "s", "a", "ç", "o", " ", "x">>)
    /\ WeightFired /\ GastroFired
    /\ req.module = Esportiva
    /\ HasBullet(report.next_steps, FatigueNextStep)

(***************************************************************************)
(* The bullets a request asks for, section by section, as a rule table.    *)
(***************************************************************************)
\* the follow-up bullets of each known module
ModuleFollowUps(module) ==
    IF module = Clinica THEN <<ClinicaFollowUp, ClinicaFollowUp2>>
    ELSE IF module = Esportiva THEN <<EsportivaFollowUp, EsportivaFollowUp2>>
    ELSE <<MaternoFollowUp>>

\* the cross-cutting rules in their order: fatigue, weight loss, gastrointestinal
CrossRules(section) ==
    IF section = "assessment"
    THEN << [on |-> FatigueFired, line |-> FatigueAssessment],
            [on |-> WeightFired, line |-> WeightAssessment],
            [on |-> GastroFired, line |-> GastroAssessment] >>
    ELSE IF section = "attention_points"
    THEN << [on |-> FatigueFired, line |-> FatigueAttention],
            [on |-> WeightFired, line |-> WeightAttention],
            [on |-> GastroFired, line |-> GastroAttention] >>
    ELSE IF section = "next_steps"
    THEN << [on |-> FatigueFired, line |-> FatigueNextStep],
            [on |-> WeightFired, line |-> WeightNextStep],
            [on |-> GastroFired, line |-> GastroNextStep] >>
    ELSE <<>>

\* the bullet of each field of the module, in the module's field order
FieldRules(section) ==
    LET fields == ModuleFields(req.module)
    IN  [i \in 1..Len(fields) |->
            LET k == fields[i]
            IN  IF section = "attention_points"
                THEN [on |-> Provided(k),
                      line |-> IF Provided(k)
                               THEN <<AttentionHead[k]>> \o strip(req.extra[k]) \o <<AttentionTail[k]>>
                               ELSE <<>>]
                ELSE IF section = "missing_data"
                THEN [on |-> ~Provided(k), line |-> MissingLine[k]]
                ELSE IF section = "next_steps" /\ k \in DOMAIN FieldNextStep
                THEN [on |-> Provided(k), line |-> FieldNextStep[k]]
                ELSE [on |-> FALSE, line |-> <<>>]]

\* the unconditional bullets of the module group
GroupRules(section) ==
    IF req.module \notin KnownModules THEN <<>>
    ELSE IF section = "assessment" THEN << [on |-> TRUE, line |-> ModuleAssessment(req.module)] >>
    ELSE IF section = "next_steps" THEN << [on |-> TRUE, line |-> ModuleNextStep(req.module)] >>
    ELSE IF section = "follow_up"
    THEN [i \in 1..Len(ModuleFollowUps(req.module)) |->
             [on |-> TRUE, line |-> ModuleFollowUps(req.module)[i]]]
    ELSE <<>>

\* the bullets of a section: those of the rules that are on, in the order
\* cross-cutting, per field, unconditional; the fallback if none is on
ExpectedBullets(section) ==
    LET fired == SelectSeq(CrossRules(section) \o FieldRules(section) \o GroupRules(section),
                           LAMBDA rule : rule.on)
    IN  IF fired = <<>> THEN <<Fallback[section]>>
        ELSE [i \in 1..Len(fired) |-> fired[i].line]

(***************************************************************************)
(* C7.  In each of the five sections other than the summary the bullets    *)
(* are in contribution order: the cross-cutting bullets in the order       *)
(* fatigue, weight loss, gastrointestinal, then the bullets of the         *)
(* module's fields in the module's field order, then the unconditional     *)
(* bullets of the group.  Each bullet is "- " and its text, the bullets    *)
(* are separated by one newline, and every bullet of every rule that       *)
(* fired is there: no rule removes or moves the bullet of another.         *)
(***************************************************************************)
C7_ContributionOrder ==
    Returned =>
        \A s \in Sections :
            SplitLines(report[s])
              = [i \in 1..Len(ExpectedBullets(s)) |-> <<"- ">> \o ExpectedBullets(s)[i]]

\* all three cross-cutting rules fired in a call of the first module that
\* provides labs: next_steps has five bullets from three kinds of rule
C7_Witness ==
    /\ Returned
    /\ req.module = Clinica
    /\ FatigueFired /\ WeightFired /\ GastroFired
    /\ Provided("labs") /\ ~Provided("comorbidities")
    /\ Len(SplitLines(report.next_steps)) = 5
    /\ Len(SplitLines(report.attention_points)) >= 4

(***************************************************************************)
(* C8.  Each module group ends by appending one next-step bullet and its   *)
(* follow-up bullets: Clinical the initial-plan next step and two          *)
(* follow-up bullets (reassess in 7 to 14 days; update measures and        *)
(* review exams), Sports the weekly-indicators next step and two           *)
(* follow-up bullets (reassess in 7 days; update metrics), MaternalChild   *)
(* the routine/safety next step and one follow-up bullet (reassess in 14   *)
(* to 30 days).  For a known module follow_up is exactly those bullets.    *)
(***************************************************************************)
C8_GroupTail ==
    (Returned /\ req.module \in KnownModules) =>
        LET steps == SplitLines(report.next_steps)
            follow == SplitLines(report.follow_up)
        IN  /\ steps[Len(steps)] = <<"- ">> \o ModuleNextStep(req.module)
            /\ follow[1] = <<"- ">> \o ModuleFollowUp(req.module)
            /\ Len(follow) = IF req.module = Materno THEN 1 ELSE 2
            /\ req.module = Clinica => follow[2] = <<"- ">> \o ClinicaFollowUp2
            /\ req.module = Esportiva => follow[2] = <<"- ">> \o EsportivaFollowUp2

\* the claim as stated: follow_up of a known module is the one reassessment
\* bullet
C8_AsStated ==
    (Returned /\ req.module \in KnownModules) =>
        LET steps == SplitLines(report.next_steps)
        IN  /\ steps[Len(steps)] = <<"- ">> \o ModuleNextStep(req.module)
            /\ SplitLines(report.follow_up) = << <<"- ">> \o ModuleFollowUp(req.module) >>

\* a call of the second module: two follow-up bullets
C8_Witness ==
    /\ Returned
    /\ req.module = Esportiva
    /\ report.follow_up
         = <<"- ">> \o EsportivaFollowUp \o <<"\n">> \o <<"- ">> \o EsportivaFollowUp2

(***************************************************************************)
(* C9.  The summary is the composition of four parts joined by newlines:   *)
(* "Módulo: <module> (<subtype>)", "Queixa principal: <complaint>",        *)
(* "Objetivos: <goals>" and "Observações: <notes>", with complaint, goals  *)
(* and notes stripped and "Não informado" in the place of the notes when   *)
(* they are absent or blank.  It has four lines when the stripped          *)
(* complaint, goals and notes have no line break in them, and one more     *)
(* line for each line break they have; it has no bullet of any rule.       *)
(***************************************************************************)
\* the number of line breaks of a text
LineBreaks(text) == Cardinality({i \in 1..Len(text) : text[i] = "\n"})

\* the text of a request field as the engine uses it
Stripped(f) == IF req[f] = None THEN <<>> ELSE strip(req[f])

\* the notes are absent or blank
NotesBlank ==
    req.notes = None \/ \A i \in 1..Len(req.notes) : req.notes[i] \in Whitespace

HeaderLine ==
    <<"Módulo: ">> \o format(req.module) \o <<" (">> \o format(req.subtype) \o <<")">>

C9_SummaryLines ==
    Returned =>
        LET lines == SplitLines(report.summary)
            breaks == LineBreaks(Stripped("complaint")) + LineBreaks(Stripped("goals"))
                        + LineBreaks(Stripped("notes"))
        IN  /\ Len(lines) = 4 + breaks
            /\ lines[1] = HeaderLine
            /\ lines[2][1] = "Queixa principal: "
            /\ breaks = 0 =>
                   /\ lines[2] = <<"Queixa principal: ">> \o Stripped("complaint")
                   /\ lines[3] = <<"Objetivos: ">> \o Stripped("goals")
                   /\ lines[4] = <<"Observações: ">>
                                   \o (IF NotesBlank THEN Placeholder ELSE Stripped("notes"))
            /\ NotesBlank => lines[Len(lines)] = <<"Observações: ">> \o Placeholder
            /\ \A i \in 1..Len(report.summary) :
                   report.summary[i] \notin ModuleLiterals
                                              \cup {"- "} \cup {Fallback[s][1] : s \in Sections}

\* the claim as stated: four lines whatever the content
C9_AsStated ==
    Returned =>
        LET lines == SplitLines(report.summary)
        IN  /\ Len(lines) = 4
            /\ lines[1] = HeaderLine
            /\ lines[2] = <<"Queixa principal: ">> \o Stripped("complaint")
            /\ lines[3] = <<"Objetivos: ">> \o Stripped("goals")
            /\ lines[4] = <<"Observações: ">>
                            \o (IF NotesBlank THEN Placeholder ELSE Stripped("notes"))

\* notes of two lines, as the text area of the form allows: five lines
C9_Witness ==
    /\ Returned
    /\ req.notes = <<"a", "\n", "b">>
    /\ LineBreaks(Stripped("complaint")) = 0
    /\ req.complaint # None /\ Stripped("complaint") # req.complaint
    /\ Len(SplitLines(report.summary)) = 5

(***************************************************************************)
(* C10.  The subtype does not alter the rule logic: two calls that differ  *)
(* in the subtype only return the same assessment, attention_points,       *)
(* next_steps, missing_data and follow_up, and summaries that differ in    *)
(* their first line only.                                                  *)
(***************************************************************************)
C10_SubtypeHeaderOnly ==
    Returned =>
        \A subtype \in (Subtypes \cup {None}) \ {req.subtype} :
            LET other == generate_report_simulated(req.module, subtype, req.complaint,
                                                   req.goals, req.notes, req.extra)
            IN  /\ \A s \in Sections : other[s] = report[s]
                /\ Tail(SplitLines(other.summary)) = Tail(SplitLines(report.summary))
                /\ Head(SplitLines(other.summary)) # Head(SplitLines(report.summary))

\* a call whose subtype label has a weight-loss term in it while the goals
\* have none: the weight-loss rule did not fire
C10_Witness ==
    /\ Returned
    /\ Mentions(req.subtype, WeightTerms)
    /\ ~WeightFired
    /\ req.module = Clinica
    /\ ~HasBullet(report.assessment, WeightAssessment)

(***************************************************************************)
(* C11.  Keys of the extra mapping the active module does not read are     *)
(* ignored, and a field the module reads is treated the same whether its   *)
(* key is absent, its value is "" or its value is whitespace only: two     *)
(* calls that differ only in keys the module does not read, or only in     *)
(* which of these forms a field that is not provided takes, return the     *)
(* same report.  A field of another module changes nothing.                *)
(***************************************************************************)
\* a key no module reads
UnknownKey == "waist"

\* the mapping of the request with the fields its module reads and the
\* request provides kept as they are, the other fields of the module left
\* out in the way np, and, when foreign holds, every other field of the
\* three modules and UnknownKey provided
ExtraVariant(np, foreign) ==
    LET own == FieldSet(req.module)
        kept == {k \in own : Provided(k)}
        others == IF foreign THEN (AllFields \ own) \cup {UnknownKey} ELSE {}
        keys == kept \cup (IF np = "absent" THEN {} ELSE own \ kept) \cup others
    IN  [k \in keys |-> IF k \in kept THEN req.extra[k]
                        ELSE IF k \in others THEN <<"x">>
                        ELSE left_out(np)]

C11_UnreadKeysAndBlankForms ==
    Returned =>
        \A np \in {"absent", "empty", "blank"} : \A foreign \in BOOLEAN :
            generate_report_simulated(req.module, req.subtype, req.complaint, req.goals,
                                      req.notes, ExtraVariant(np, foreign)) = report

\* a call of the first module whose mapping has a field of the module as
\* whitespace and another without its key: both are reported missing
C11_Witness ==
    /\ Returned
    /\ req.module = Clinica
    /\ "labs" \in DOMAIN req.extra /\ req.extra["labs"] = Pad(MaxPad)
    /\ "meds" \notin DOMAIN req.extra
    /\ HasBullet(report.missing_data, MissingLine["labs"])
    /\ HasBullet(report.missing_data, MissingLine["meds"])

(***************************************************************************)
(* C12.  The engine is pure: every call returns the report the function    *)
(* gives for its own arguments, however the calls of other callers, with   *)
(* the same or other arguments, come before it or interleave with it; all  *)
(* calls made with the same arguments have returned the same report; and   *)
(* no consultation id and no timestamp is in a report.                     *)
(***************************************************************************)
C12_Pure ==
    /\ \A c \in Callers :
           calls[c].pc = "done" =>
               LET r == calls[c].req
               IN  /\ calls[c].result
                        = generate_report_simulated(r.module, r.subtype, r.complaint,
                                                    r.goals, r.notes, r.extra)
                   /\ \A k \in ReportKeys : \A i \in 1..Len(calls[c].result[k]) :
                          <<calls[c].result[k][i]>> \notin ConsultIds \cup Timestamps
    /\ \A p \in seen : \A q \in seen : p[1] = q[1] => p[2] = q[2]

\* two callers have a finished call with the same arguments each, after a
\* call with other arguments has finished
C12_Witness ==
    /\ calls[1].pc = "done" /\ calls[2].pc = "done"
    /\ calls[1].req = calls[2].req
    /\ calls[1].cid # calls[2].cid
    /\ Cardinality(seen) >= 2

(***************************************************************************)
(* Reading the files: their rows and the records they name.                *)
(***************************************************************************)
Rows(file) == {file[i] : i \in 1..Len(file)}

\* the session writes a file in this step
Writes(s) ==
    /\ sess[s].pc \in {"patient_save", "consult_save", "analyse_save", "report_save"}
    /\ sess'[s].pc # sess[s].pc

(***************************************************************************)
(* C13.  The store is append-on-write: every write of a registration, of a *)
(* saved consultation and of an analysis leaves each row that was in the   *)
(* patients, consultations and reports files in its file, unchanged, and   *)
(* the new row is in the file written; this also when two sessions do      *)
(* these operations interleaved.                                           *)
(***************************************************************************)
C13_AppendOnWrite ==
    [][\A s \in Sessions :
           Writes(s) =>
               /\ \A f \in FileNames : Rows(files[f]) \subseteq Rows(files'[f])
               /\ \E f \in FileNames :
                      save_df(sess[s].run.df)[Len(sess[s].run.df)] \in Rows(files'[f]) \ Rows(files[f])
      ]_vars

(***************************************************************************)
(* C14.  The required fields are checked before the engine.  A press of    *)
(* "Salvar consulta" or "Analisar consulta" with a complaint or goals that *)
(* is empty or only whitespace ends with the error message and nothing     *)
(* else: the run goes no further (no call of the engine), and the          *)
(* consultations file, the reports file, last_consult_id and the stored    *)
(* PDF are as before.  The engine is called only with a complaint and      *)
(* goals that are not blank, a module selected and a patient selected.     *)
(***************************************************************************)
Blank(text) == \A i \in 1..Len(text) : text[i] \in Whitespace

Rejected(s) ==
    /\ sess'[s].error \in {SaveError, AnalyseError}
    /\ sess'[s].pc = "idle"
    /\ files' = files
    /\ sess'[s].last_consult_id = sess[s].last_consult_id
    /\ sess'[s].last_pdf_bytes = sess[s].last_pdf_bytes

C14_ValidationFirst ==
    /\ [](\A s \in Sessions :
             sess[s].pc \in {"analyse_save", "engine"} =>
                 /\ ~Blank(sess[s].run.form.complaint)
                 /\ ~Blank(sess[s].run.form.goals)
                 /\ sess[s].module # None
                 /\ sess[s].patient_id # None)
    /\ [][\A s \in Sessions : \A form \in Forms(sess[s].module) :
              /\ PressSave(s, form) \/ PressAnalyse(s, form)
              /\ Blank(form.complaint) \/ Blank(form.goals)
              => Rejected(s)
         ]_vars

\* an analysis was made and its PDF stored; the next press of "Analisar
\* consulta", with a blank field, has been rejected
C14_Witness ==
    /\ sess["A"].pc = "idle"
    /\ sess["A"].error = AnalyseError
    /\ sess["A"].last_consult_id # None
    /\ sess["A"].last_pdf_bytes # None
    /\ Len(files["consultations"]) = 1
    /\ Len(files["reports"]) = 1

(***************************************************************************)
(* C15.  Referential integrity: when no run is under way, after any        *)
(* sequence of registrations, saved consultations, analyses and            *)
(* deduplications, the consult_id of every row of the reports file is the  *)
(* consult_id of a row of the consultations file, and the patient_id of    *)
(* every row of the consultations and of the reports file is the           *)
(* patient_id of a row of the patients file.                               *)
(***************************************************************************)
Ids(file, column) == {row[column] : row \in Rows(file)}

C15_ReferentialIntegrity ==
    (\A s \in Sessions : sess[s].pc = "idle") =>
        /\ Ids(files["reports"], "consult_id") \subseteq Ids(files["consultations"], "consult_id")
        /\ Ids(files["consultations"], "patient_id") \subseteq Ids(files["patients"], "patient_id")
        /\ Ids(files["reports"], "patient_id") \subseteq Ids(files["patients"], "patient_id")

====
